---- MODULE Spec2Model ----
(***************************************************************************)
(* Live market data synchronisation of trading_platform_v5.                *)
(*                                                                         *)
(* Part I  - ingestion_service/live_data_ingestor.py: LiveBarListener      *)
(*           (feed record -> bar dict -> Redis list + Redis pub/sub) and   *)
(*           main() (cache clearing, listener registration, watches).      *)
(* Part II - frontend/static/js/app/6-api-service.js and                   *)
(*           7-event-listeners.js: the chart's historical loads, backward  *)
(*           chunk fetches and live socket.                                *)
(***************************************************************************)
EXTENDS Integers, Sequences, FiniteSets, TLC

(***************************************************************************)
(* Bounds of the model.                                                    *)
(***************************************************************************)
\* Number of feed messages delivered to the listener in one behaviour.
MaxFeed == 3

(***************************************************************************)
(* Part I: ingestion.                                                      *)
(***************************************************************************)
\* main(): symbols = ["AAPL", "AMZN", "TSLA", "@NQM25"]; the handlers treat
\* every symbol alike, the model carries the first two.
Symbols == {"AAPL", "AMZN"}

\* The order in which main() iterates over the symbols.
SymbolOrder == <<"AAPL", "AMZN">>

\* bar_data[0]['symbol'] bytes that .decode('utf-8') rejects.
BadSymbolBytes == "\\xff"

\* self.redis_client.expire(cache_key, 86400)
CACHE_TTL == 86400

\* The key has no expiry set (Redis TTL of -1).
NO_TTL == -1

\* ZoneInfo("America/New_York") standard-time offset from UTC, in seconds.
NY_UTC_OFFSET == 18000

\* A bar left in a symbol's list by a previous run of the service.
StaleBar == [timestamp |-> 0, open |-> 1, high |-> 1, low |-> 1,
             close |-> 1, volume |-> 1]

VARIABLES
    completed_lookbacks, \* LiveBarListener.completed_lookbacks
    cache,               \* Redis lists  intraday_bars:<symbol>
    ttl,                 \* expiry of the key intraday_bars:<symbol>
    published,           \* messages published on channel live_bars:<symbol>
    lookback_log,        \* "Lookback complete for <symbol>" lines logged
    error_log,           \* logging.error lines written by the handlers
    raised,              \* an exception propagated out of a handler
    feed,                \* the messages the feed has delivered so far
    pc_main,             \* position of main()
    listener,            \* the listener class registered on bar_conn
    watched,             \* symbols for which bar_conn.watch was issued
    prev_run             \* what the previous run had left in the cache

ingestVars == <<completed_lookbacks, cache, ttl, published, lookback_log,
                error_log, raised, feed, pc_main, listener, watched, prev_run>>

VARIABLES
    sessionToken,        \* state.sessionToken
    heartbeatIntervalId, \* state.heartbeatIntervalId
    sessionPending,      \* startSession() awaits initiateSession()
    currentlyFetching,   \* state.currentlyFetching
    loadingIndicator,    \* elements.loadingIndicator.style.display = 'flex'
    allDataLoaded,       \* state.allDataLoaded
    chartRequestId,      \* state.chartRequestId (0 is null)
    chartCurrentOffset,  \* state.chartCurrentOffset
    allChartData,        \* state.allChartData
    allVolumeData,       \* state.allVolumeData
    mainSeries,          \* the data held by state.mainSeries
    volumeSeries,        \* the data held by state.volumeSeries
    symbolSelect,        \* elements.symbolSelect.value
    timezoneSelect,      \* elements.timezoneSelect.value
    liveToggle,          \* elements.liveToggle.checked
    liveDataSocket,      \* liveDataSocket (0 is null)
    sockets,             \* the WebSockets that are open
    socketSeq,           \* number of WebSockets created so far
    inflight,            \* HTTP requests sent and not yet answered
    reqSeq,              \* number of HTTP requests sent so far
    server_windows,      \* the server's request windows: request_id -> symbol
    handled,             \* the HTTP answer or WebSocket message that the
                         \* last step handled (history)
    toasts,              \* the notices showToast displayed in the last step
    heartbeats           \* heartbeat requests sent and not yet answered

flagVars == <<currentlyFetching, loadingIndicator, allDataLoaded>>
windowVars == <<chartRequestId, chartCurrentOffset>>
bufferVars == <<allChartData, allVolumeData>>
seriesVars == <<mainSeries, volumeSeries>>
controlVars == <<symbolSelect, timezoneSelect, liveToggle>>
sessionVars == <<sessionToken, heartbeatIntervalId, sessionPending,
                 heartbeats>>
liveVars == <<liveDataSocket, sockets, socketSeq>>
netVars == <<inflight, reqSeq, server_windows>>

clientVars == <<flagVars, windowVars, bufferVars, seriesVars, controlVars,
                sessionVars, liveVars, netVars, handled, toasts>>

vars == <<ingestVars, clientVars>>

\* --- feed records ------------------------------------------------------

\* One record of the feed, delivered at feed time t (seconds after midnight
\* of day 0, exchange-local).  valid_datetime = FALSE stands for date/time
\* fields that date_us_to_datetime cannot convert.
RawRecord(sym, t, h, l, okTime) ==
    [symbol |-> sym, date |-> 0, time |-> t, open_p |-> h, high_p |-> h,
     low_p |-> l, close_p |-> l, prd_vlm |-> IF h = 0 THEN 0 ELSE 100,
     valid_datetime |-> okTime]

\* The records the feed can deliver at time t: per symbol a regular bar, a
\* placeholder (high = low = 0) and a bar with a broken date/time, and one
\* record whose symbol bytes do not decode.
RawRecords(t) ==
    UNION {{RawRecord(s, t, 12, 9, TRUE), RawRecord(s, t, 0, 0, TRUE),
            RawRecord(s, t, 12, 9, FALSE)} : s \in Symbols}
    \cup {RawRecord(BadSymbolBytes, t, 12, 9, TRUE)}

\* process_latest_bar_update reads nothing but the symbol.
UpdateRecords(t) ==
    {RawRecord(s, t, 12, 9, TRUE) : s \in Symbols \cup {BadSymbolBytes}}

\* date_us_to_datetime(date, time): naive local seconds since the epoch.
date_us_to_datetime(date, time) == date * 86400 + time

\* _prepare_bar_data raises (date/time not convertible).
PrepareRaises(r) == ~r.valid_datetime

\* bar_data[0]['symbol'].decode('utf-8') raises.
DecodeRaises(r) == r.symbol = BadSymbolBytes

_prepare_bar_data(r) ==
    [timestamp |-> date_us_to_datetime(r.date, r.time) + NY_UTC_OFFSET,
     open |-> r.open_p, high |-> r.high_p, low |-> r.low_p,
     close |-> r.close_p, volume |-> r.prd_vlm]

\* --- Redis ---------------------------------------------------------------

rpush(c, key, value) == [c EXCEPT ![key] = Append(@, value)]

expire(e, key, seconds) == [e EXCEPT ![key] = seconds]

publish(p, channel, value) == [p EXCEPT ![channel] = Append(@, value)]

delete(c, key) == [c EXCEPT ![key] = <<>>]

\* --- LiveBarListener -------------------------------------------------------

Delivered(handler, r) ==
    feed' = Append(feed, [handler |-> handler, rec |-> r])

\* Mutant: the symbol is never remembered, so every call logs again.
_check_and_log_lookback_completion_forgets(symbol) ==
    /\ lookback_log' = [lookback_log EXCEPT ![symbol] = @ + 1]
    /\ UNCHANGED completed_lookbacks

_check_and_log_lookback_completion(symbol) ==
    IF symbol \notin completed_lookbacks
    THEN /\ lookback_log' = [lookback_log EXCEPT ![symbol] = @ + 1]
         /\ completed_lookbacks' = completed_lookbacks \cup {symbol}
    ELSE UNCHANGED <<lookback_log, completed_lookbacks>>

\* Mutant: the history handler also publishes the bar it caches.
process_history_bar_publishes(r) ==
    /\ Delivered("history", r)
    /\ UNCHANGED <<completed_lookbacks, lookback_log, raised>>
    /\ IF r.high_p = 0 /\ r.low_p = 0
       THEN UNCHANGED <<cache, ttl, published, error_log>>
       ELSE IF PrepareRaises(r) \/ DecodeRaises(r)
       THEN /\ error_log' = error_log + 1
            /\ UNCHANGED <<cache, ttl, published>>
       ELSE /\ published' = publish(published, r.symbol, _prepare_bar_data(r))
            /\ cache' = rpush(cache, r.symbol, _prepare_bar_data(r))
            /\ ttl' = expire(ttl, r.symbol, CACHE_TTL)
            /\ UNCHANGED error_log

process_history_bar(r) ==
    /\ Delivered("history", r)
    /\ UNCHANGED <<completed_lookbacks, lookback_log, published, raised>>
    /\ IF r.high_p = 0 /\ r.low_p = 0
       THEN UNCHANGED <<cache, ttl, error_log>>
       ELSE IF PrepareRaises(r) \/ DecodeRaises(r)
       THEN /\ error_log' = error_log + 1
            /\ UNCHANGED <<cache, ttl>>
       ELSE /\ cache' = rpush(cache, r.symbol, _prepare_bar_data(r))
            /\ ttl' = expire(ttl, r.symbol, CACHE_TTL)
            /\ UNCHANGED error_log

\* Mutant: the update handler treats its payload as a completed live bar.
process_latest_bar_update_as_live(r) ==
    /\ Delivered("update", r)
    /\ UNCHANGED raised
    /\ IF DecodeRaises(r)
       THEN /\ error_log' = error_log + 1
            /\ UNCHANGED <<cache, ttl, published, lookback_log,
                           completed_lookbacks>>
       ELSE /\ _check_and_log_lookback_completion(r.symbol)
            /\ published' = publish(published, r.symbol, _prepare_bar_data(r))
            /\ cache' = rpush(cache, r.symbol, _prepare_bar_data(r))
            /\ ttl' = expire(ttl, r.symbol, CACHE_TTL)
            /\ UNCHANGED error_log

process_latest_bar_update(r) ==
    /\ Delivered("update", r)
    /\ UNCHANGED <<cache, ttl, published, raised>>
    /\ IF DecodeRaises(r)
       THEN /\ error_log' = error_log + 1
            /\ UNCHANGED <<lookback_log, completed_lookbacks>>
       ELSE /\ _check_and_log_lookback_completion(r.symbol)
            /\ UNCHANGED error_log

\* Mutant: the live bar is cached under the channel name's other symbol.
process_live_bar_wrong_key(r) ==
    /\ Delivered("live", r)
    /\ UNCHANGED raised
    /\ IF PrepareRaises(r) \/ DecodeRaises(r)
       THEN /\ error_log' = error_log + 1
            /\ UNCHANGED <<cache, ttl, published, lookback_log,
                           completed_lookbacks>>
       ELSE /\ _check_and_log_lookback_completion(r.symbol)
            /\ published' = publish(published, r.symbol, _prepare_bar_data(r))
            /\ \E other \in Symbols \ {r.symbol} :
                  /\ cache' = rpush(cache, other, _prepare_bar_data(r))
                  /\ ttl' = expire(ttl, other, CACHE_TTL)
            /\ UNCHANGED error_log

\* Mutant: no try/except around the body, a malformed record raises out.
process_live_bar_no_try(r) ==
    /\ Delivered("live", r)
    /\ UNCHANGED error_log
    /\ IF PrepareRaises(r) \/ DecodeRaises(r)
       THEN /\ raised' = TRUE
            /\ UNCHANGED <<cache, ttl, published, lookback_log,
                           completed_lookbacks>>
       ELSE /\ _check_and_log_lookback_completion(r.symbol)
            /\ published' = publish(published, r.symbol, _prepare_bar_data(r))
            /\ cache' = rpush(cache, r.symbol, _prepare_bar_data(r))
            /\ ttl' = expire(ttl, r.symbol, CACHE_TTL)
            /\ UNCHANGED raised

process_live_bar(r) ==
    /\ Delivered("live", r)
    /\ UNCHANGED raised
    /\ IF PrepareRaises(r) \/ DecodeRaises(r)
       THEN /\ error_log' = error_log + 1
            /\ UNCHANGED <<cache, ttl, published, lookback_log,
                           completed_lookbacks>>
       ELSE /\ _check_and_log_lookback_completion(r.symbol)
            /\ published' = publish(published, r.symbol, _prepare_bar_data(r))
            /\ cache' = rpush(cache, r.symbol, _prepare_bar_data(r))
            /\ ttl' = expire(ttl, r.symbol, CACHE_TTL)
            /\ UNCHANGED error_log

\* --- the handlers over a Redis whose calls may raise -----------------------

\* The Redis call of a handler that raises redis.RedisError, if any; the
\* calls before it have taken effect, the except clause logs the error.
HistoryFaults == {"none", "rpush", "expire"}

LiveFaults == {"none", "publish", "rpush", "expire"}

\* Mutant: the history handler appends without setting the expiry.
process_history_bar_on_no_expire(r, fault) ==
    /\ Delivered("history", r)
    /\ UNCHANGED <<completed_lookbacks, lookback_log, published, raised, ttl>>
    /\ IF r.high_p = 0 /\ r.low_p = 0
       THEN UNCHANGED <<cache, error_log>>
       ELSE IF PrepareRaises(r) \/ DecodeRaises(r)
       THEN /\ error_log' = error_log + 1
            /\ UNCHANGED cache
       ELSE /\ cache' = IF fault = "rpush" THEN cache
                        ELSE rpush(cache, r.symbol, _prepare_bar_data(r))
            /\ error_log' = IF fault \in {"none", "expire"} THEN error_log
                            ELSE error_log + 1

\* process_history_bar when the call named by fault raises.
process_history_bar_on(r, fault) ==
    /\ Delivered("history", r)
    /\ UNCHANGED <<completed_lookbacks, lookback_log, published, raised>>
    /\ IF r.high_p = 0 /\ r.low_p = 0
       THEN UNCHANGED <<cache, ttl, error_log>>
       ELSE IF PrepareRaises(r) \/ DecodeRaises(r)
       THEN /\ error_log' = error_log + 1
            /\ UNCHANGED <<cache, ttl>>
       ELSE /\ cache' = IF fault = "rpush" THEN cache
                        ELSE rpush(cache, r.symbol, _prepare_bar_data(r))
            /\ ttl' = IF fault \in {"rpush", "expire"} THEN ttl
                      ELSE expire(ttl, r.symbol, CACHE_TTL)
            /\ error_log' = IF fault = "none" THEN error_log
                            ELSE error_log + 1

\* process_live_bar when the call named by fault raises: publish comes
\* first, then rpush, then expire.
process_live_bar_on(r, fault) ==
    /\ Delivered("live", r)
    /\ UNCHANGED raised
    /\ IF PrepareRaises(r) \/ DecodeRaises(r)
       THEN /\ error_log' = error_log + 1
            /\ UNCHANGED <<cache, ttl, published, lookback_log,
                           completed_lookbacks>>
       ELSE /\ _check_and_log_lookback_completion(r.symbol)
            /\ published' = IF fault = "publish" THEN published
                            ELSE publish(published, r.symbol,
                                         _prepare_bar_data(r))
            /\ cache' = IF fault \in {"publish", "rpush"} THEN cache
                        ELSE rpush(cache, r.symbol, _prepare_bar_data(r))
            /\ ttl' = IF fault = "none"
                      THEN expire(ttl, r.symbol, CACHE_TTL)
                      ELSE ttl
            /\ error_log' = IF fault = "none" THEN error_log
                            ELSE error_log + 1

\* --- the listener driven by the feed ---------------------------------------

FeedTime == Len(feed) + 1

HistoryBar ==
    /\ listener = "LiveBarListener"
    /\ Len(feed) < MaxFeed
    /\ \E r \in RawRecords(FeedTime) : process_history_bar(r)
    /\ UNCHANGED <<pc_main, listener, watched, prev_run, clientVars>>

LatestBarUpdate ==
    /\ listener = "LiveBarListener"
    /\ Len(feed) < MaxFeed
    /\ \E r \in UpdateRecords(FeedTime) : process_latest_bar_update(r)
    /\ UNCHANGED <<pc_main, listener, watched, prev_run, clientVars>>

LiveBar ==
    /\ listener = "LiveBarListener"
    /\ Len(feed) < MaxFeed
    /\ \E r \in RawRecords(FeedTime) : process_live_bar(r)
    /\ UNCHANGED <<pc_main, listener, watched, prev_run, clientVars>>

RedisHistoryBar ==
    /\ listener = "LiveBarListener"
    /\ Len(feed) < MaxFeed
    /\ \E r \in RawRecords(FeedTime), fault \in HistoryFaults :
          process_history_bar_on(r, fault)
    /\ UNCHANGED <<pc_main, listener, watched, prev_run, clientVars>>

RedisLiveBar ==
    /\ listener = "LiveBarListener"
    /\ Len(feed) < MaxFeed
    /\ \E r \in RawRecords(FeedTime), fault \in LiveFaults :
          process_live_bar_on(r, fault)
    /\ UNCHANGED <<pc_main, listener, watched, prev_run, clientVars>>

\* A LiveBarListener attached to a connection that watches every symbol,
\* over a cleared cache.
InitListener ==
    /\ completed_lookbacks = {}
    /\ cache = [s \in Symbols |-> <<>>]
    /\ ttl = [s \in Symbols |-> NO_TTL]
    /\ published = [s \in Symbols |-> <<>>]
    /\ lookback_log = [s \in Symbols |-> 0]
    /\ error_log = 0
    /\ raised = FALSE
    /\ feed = <<>>
    /\ pc_main = <<"running", 0>>
    /\ listener = "LiveBarListener"
    /\ watched = Symbols
    /\ prev_run = [s \in Symbols |-> <<>>]


(***************************************************************************)
(* main(): clear the cache, get the connection, register the listener,     *)
(* watch every symbol, run until interrupted.                              *)
(***************************************************************************)
NumSymbols == Len(SymbolOrder)

\* Mutant: the loop of clear_symbol_cache stops one symbol short.
clear_symbol_cache_step_skips_last(i) ==
    /\ cache' = IF i < NumSymbols THEN delete(cache, SymbolOrder[i]) ELSE cache
    /\ ttl' = IF i < NumSymbols THEN expire(ttl, SymbolOrder[i], NO_TTL) ELSE ttl

\* One iteration of clear_symbol_cache: redis_client.delete(cache_key).
clear_symbol_cache_step(i) ==
    /\ cache' = delete(cache, SymbolOrder[i])
    /\ ttl' = expire(ttl, SymbolOrder[i], NO_TTL)

ClearSymbolCache ==
    /\ pc_main[1] = "clear"
    /\ clear_symbol_cache_step(pc_main[2])
    /\ pc_main' = IF pc_main[2] < NumSymbols
                  THEN <<"clear", pc_main[2] + 1>> ELSE <<"get_conn", 0>>
    /\ UNCHANGED <<completed_lookbacks, published, lookback_log, error_log,
                   raised, feed, listener, watched, prev_run,
                   clientVars>>

\* bar_conn = get_iqfeed_bar_conn(); main returns when it is None.
GetBarConn ==
    /\ pc_main[1] = "get_conn"
    /\ \E ok \in BOOLEAN :
          pc_main' = IF ok THEN <<"add_listener", 0>> ELSE <<"exited", 0>>
    /\ UNCHANGED <<completed_lookbacks, cache, ttl, published, lookback_log,
                   error_log, raised, feed, listener, watched, prev_run,
                   clientVars>>

\* bar_listener = iq.VerboseBarListener("Bar Listener");
\* bar_conn.add_listener(bar_listener)   (LiveBarListener is commented out)
AddListener ==
    /\ pc_main[1] = "add_listener"
    /\ listener' = "VerboseBarListener"
    /\ pc_main' = <<"watch", 1>>
    /\ UNCHANGED <<completed_lookbacks, cache, ttl, published, lookback_log,
                   error_log, raised, feed, watched, prev_run,
                   clientVars>>

\* One iteration of the watch loop: bar_conn.watch(symbol=symbol, ...).
Watch ==
    /\ pc_main[1] = "watch"
    /\ watched' = watched \cup {SymbolOrder[pc_main[2]]}
    /\ pc_main' = IF pc_main[2] < NumSymbols
                  THEN <<"watch", pc_main[2] + 1>> ELSE <<"running", 0>>
    /\ UNCHANGED <<completed_lookbacks, cache, ttl, published, lookback_log,
                   error_log, raised, feed, listener, prev_run,
                   clientVars>>

\* KeyboardInterrupt: every symbol is unwatched and main ends.
Interrupt ==
    /\ pc_main[1] = "running"
    /\ watched' = {}
    /\ pc_main' = <<"exited", 0>>
    /\ UNCHANGED <<completed_lookbacks, cache, ttl, published, lookback_log,
                   error_log, raised, feed, listener, prev_run,
                   clientVars>>

\* iq.VerboseBarListener prints the record it is handed and touches neither
\* Redis nor any state of this module.
VerboseBar(handler) ==
    /\ listener = "VerboseBarListener"
    /\ Len(feed) < MaxFeed
    /\ \E r \in RawRecords(FeedTime) :
          /\ r.symbol \in watched
          /\ Delivered(handler, r)
    /\ UNCHANGED <<completed_lookbacks, cache, ttl, published, lookback_log,
                   error_log, raised, pc_main, listener, watched, prev_run,
                   clientVars>>

VerboseHistoryBar == VerboseBar("history")

VerboseLatestBarUpdate == VerboseBar("update")

VerboseLiveBar == VerboseBar("live")

\* The service starts over whatever the previous run left in Redis.
InitMain ==
    /\ completed_lookbacks = {}
    /\ cache \in [Symbols -> {<<>>, <<StaleBar>>}]
    /\ ttl = [s \in Symbols |-> IF cache[s] = <<>> THEN NO_TTL ELSE CACHE_TTL]
    /\ published = [s \in Symbols |-> <<>>]
    /\ lookback_log = [s \in Symbols |-> 0]
    /\ error_log = 0
    /\ raised = FALSE
    /\ feed = <<>>
    /\ pc_main = <<"clear", 1>>
    /\ listener = "none"
    /\ watched = {}
    /\ prev_run = cache


(***************************************************************************)
(* Part II: the chart client.                                              *)
(***************************************************************************)
\* Bound: historical HTTP requests sent in one behaviour.
MaxRequests == 4

\* Bound: the requests of a behaviour with live messages (SpecLive), and of
\* a behaviour of SpecChart.
MaxLiveRequests == 2

MaxChartRequests == 3

WithinLive == reqSeq' <= MaxLiveRequests

WithinChart == reqSeq' <= MaxChartRequests

\* Requests of a behaviour of the page with its heartbeat timer, and the
\* heartbeats that may wait for their answer at one time.
MaxSessionRequests == 2

MaxHeartbeats == 1

WithinSession == reqSeq' <= MaxSessionRequests

\* constants.DATA_CHUNK_SIZE
DATA_CHUNK_SIZE == 5000

\* state.sessionToken before a session exists.
NULL == "null"

\* The token /utils/session/initiate hands out.
SESSION_TOKEN == "session-1"

\* Values of the symbol and timezone controls; "" is no timezone selected.
ClientSymbols == {"AAPL", "AMZN"}

Timezones == {"America/New_York", ""}

\* Offsets the server may report for a window or a chunk.
Offsets == {0, 5000, 10000}

\* Offsets the server may report for a window: those above, and the offset
\* of a window with fewer than DATA_CHUNK_SIZE rows before its first page.
WindowOffsets == Offsets \cup {2000}

\* elements.volUpColorInput.value + '80', elements.volDownColorInput.value + '80'
VolUpColor == "up80"

VolDownColor == "down80"

\* --- the server's candles -------------------------------------------------

\* Row number t of a symbol's series as the historical API delivers it.
Candle(symbol, t) ==
    [unix_timestamp |-> t,
     open |-> IF symbol = "AAPL" THEN 100 ELSE 200,
     high |-> IF symbol = "AAPL" THEN 102 ELSE 202,
     low |-> IF symbol = "AAPL" THEN 98 ELSE 198,
     close |-> IF symbol = "AAPL" THEN 99 + 2 * (t % 2) ELSE 199 + 2 * (t % 2),
     volume |-> 10]

\* The candles of the page of DATA_CHUNK_SIZE rows that starts at offset: the
\* model keeps the page's first and last row.
Candles(symbol, offset) ==
    <<Candle(symbol, offset + 1), Candle(symbol, offset + DATA_CHUNK_SIZE)>>

\* c => ({ time: c.unix_timestamp, open, high, low, close })
ChartBar(c) ==
    [time |-> c.unix_timestamp, open |-> c.open, high |-> c.high,
     low |-> c.low, close |-> c.close]

\* c => ({ time: c.unix_timestamp, value: c.volume, color: ... })
VolumeBar(c) ==
    [time |-> c.unix_timestamp, value |-> c.volume,
     color |-> IF c.close >= c.open THEN VolUpColor ELSE VolDownColor]

\* candles.map(f)
MapChart(candles) == [k \in 1..Len(candles) |-> ChartBar(candles[k])]

MapVolume(candles) == [k \in 1..Len(candles) |-> VolumeBar(candles[k])]

\* --- requests --------------------------------------------------------------

Request(id, kind, symbol, request_id, offset, thenConnect) ==
    [id |-> id, kind |-> kind, symbol |-> symbol, request_id |-> request_id,
     offset |-> offset, thenConnect |-> thenConnect]

InitialLoads == {r \in inflight : r.kind = "initial"}

ChunkFetches == {r \in inflight : r.kind = "chunk"}

\* What the server answered to request r: outcome is "failed", "empty" or
\* "loaded", offset the offset field of a loaded answer.
Response(r, outcome, offset) ==
    [type |-> "response", id |-> r.id, kind |-> r.kind,
     requested |-> r.offset, outcome |-> outcome, offset |-> offset]

\* An event of the page: "session" (the answer of /utils/session/initiate),
\* "scroll", "context", "time" or "toggle" (the listener that ran).
Event(type) == [type |-> type]

\* The answer of /historical/ with candles: its is_partial field as well.
InitialAnswer(r, offset, is_partial) ==
    [type |-> "response", id |-> r.id, kind |-> r.kind,
     requested |-> r.offset, outcome |-> "loaded", offset |-> offset,
     is_partial |-> is_partial]

\* The request window: state.chartRequestId, state.chartCurrentOffset and
\* state.allDataLoaded.
Window ==
    [chartRequestId |-> chartRequestId,
     chartCurrentOffset |-> chartCurrentOffset,
     allDataLoaded |-> allDataLoaded]

\* An event whose listener calls loadInitialChart, with the request window
\* as the listener found it.
LoadEvent(type) == [type |-> type, before |-> Window]

\* Nothing has been handled yet.
NoInput == Event("none")

\* showToast(message, type); about names the message.
Toast(about, type) == [about |-> about, type |-> type]

\* The notice of loadInitialChart for an answer: the catch block's error, the
\* no-data warning, none for an answer with candles.
LoadToasts(outcome) ==
    CASE outcome = "failed" -> <<Toast("load", "error")>>
      [] outcome = "empty" -> <<Toast("no data", "warning")>>
      [] OTHER -> <<>>

\* The notice of fetchAndPrependDataChunk for an answer: only the catch block
\* shows one.
ChunkToasts(outcome) ==
    IF outcome = "failed" THEN <<Toast("older data", "error")>> ELSE <<>>

\* The notice of connectToLiveDataFeed: the refusal for an empty timezone,
\* else the announcement of the connection.
ConnectToasts(tz) ==
    IF tz = "" THEN <<Toast("timezone", "error")>>
    ELSE <<Toast("connecting", "info")>>

\* --- live socket -------------------------------------------------------------

\* new WebSocket(wsURL); previous is the socket liveDataSocket referred to
\* when connectToLiveDataFeed was called (0: none).
Socket(id, symbol, tz) ==
    [id |-> id, symbol |-> symbol, timezone |-> tz,
     previous |-> liveDataSocket]

\* disconnectFromLiveDataFeed(), applied to the open sockets.
Closed(open) == {s \in open : s.id # liveDataSocket}

\* Mutant: the socket is closed and the reference kept.
disconnectFromLiveDataFeed_keeps_reference ==
    /\ sockets' = Closed(sockets)
    /\ UNCHANGED <<liveDataSocket, socketSeq>>

\* disconnectFromLiveDataFeed(): onclose detached, close(), reference nulled;
\* nothing when there is no reference.
disconnectFromLiveDataFeed ==
    /\ sockets' = Closed(sockets)
    /\ liveDataSocket' = 0
    /\ UNCHANGED socketSeq

\* Mutant: the new socket is opened without closing the one in use.
connectToLiveDataFeed_keeps_previous(symbol, tz) ==
    IF tz = ""
    THEN disconnectFromLiveDataFeed
    ELSE /\ socketSeq' = socketSeq + 1
         /\ sockets' = sockets \cup {Socket(socketSeq + 1, symbol, tz)}
         /\ liveDataSocket' = socketSeq + 1

\* Mutant: the timezone is not looked at.
connectToLiveDataFeed_any_timezone(symbol, tz) ==
    /\ socketSeq' = socketSeq + 1
    /\ sockets' = Closed(sockets) \cup {Socket(socketSeq + 1, symbol, tz)}
    /\ liveDataSocket' = socketSeq + 1

\* connectToLiveDataFeed(symbol, interval) with the timezone control at tz.
connectToLiveDataFeed(symbol, tz) ==
    IF tz = ""
    THEN disconnectFromLiveDataFeed
    ELSE /\ socketSeq' = socketSeq + 1
         /\ sockets' = Closed(sockets) \cup {Socket(socketSeq + 1, symbol, tz)}
         /\ liveDataSocket' = socketSeq + 1

\* --- socket.onmessage ---------------------------------------------------------

\* The newest historical row: the last row of the page at the largest offset.
LastRow == 3 * DATA_CHUNK_SIZE

\* Timestamps of the bars the live gateway sends: the seconds after the last
\* historical row.
LiveTimes == {LastRow + 1, LastRow + 2}

\* A bar of the live feed: it is still forming, its volume is not yet the
\* one the historical row will have.
LiveCandle(symbol, t) == [Candle(symbol, t) EXCEPT !.volume = 5]

\* Backfill arrays in the order of their timestamps: the empty one and one
\* that reaches back to the last historical row.
OrderedBackfills(symbol) ==
    {<<>>,
     <<Candle(symbol, LastRow), Candle(symbol, LastRow + 1),
       Candle(symbol, LastRow + 2)>>}

\* The arrays a gateway can send: JSON.parse accepts them in any order.
BackfillArrays(symbol) ==
    OrderedBackfills(symbol) \cup
        {<<Candle(symbol, LastRow + 2), Candle(symbol, LastRow + 1)>>}

\* A message of socket s: an array or { current_bar } with its bars, and
\* the number of bars the array branch reports as applied.
Message(s, array, data, applied) ==
    [type |-> "message", symbol |-> s.symbol,
     array |-> array, data |-> data, applied |-> applied]

\* state.allChartData.length > 0 ? state.allChartData[length - 1].time : 0
LastHistoricalTime(buffer) ==
    IF Len(buffer) > 0 THEN buffer[Len(buffer)].time ELSE 0

\* Mutant: the filter also keeps a bar at the last buffered timestamp.
NewBars_inclusive(bars, lastHistoricalTime) ==
    SelectSeq(bars, LAMBDA d : d.time >= lastHistoricalTime)

\* bars.filter(d => d.time > lastHistoricalTime)
NewBars(bars, lastHistoricalTime) ==
    SelectSeq(bars, LAMBDA d : d.time > lastHistoricalTime)

\* The array branch applied to a buffer: buffer.push(...newBars).
MergeBackfill(buffer, bars, lastHistoricalTime) ==
    buffer \o NewBars(bars, lastHistoricalTime)

\* onmessage with an array.
BackfillMessage ==
    \E s \in sockets : \E data \in BackfillArrays(s.symbol) :
        LET lastHistoricalTime == LastHistoricalTime(allChartData)
            newOhlcBars == NewBars(MapChart(data), lastHistoricalTime)
        IN  /\ IF Len(data) > 0 /\ Len(newOhlcBars) > 0
               THEN /\ allChartData' = MergeBackfill(allChartData,
                                           MapChart(data), lastHistoricalTime)
                    /\ allVolumeData' = MergeBackfill(allVolumeData,
                                           MapVolume(data), lastHistoricalTime)
                    /\ mainSeries' = allChartData'
                    /\ volumeSeries' = allVolumeData'
               ELSE UNCHANGED <<bufferVars, seriesVars>>
            /\ handled' = Message(s, TRUE, data, Len(newOhlcBars))
            /\ toasts' = <<>>
            /\ UNCHANGED <<flagVars, windowVars, controlVars, sessionVars,
                           liveVars, netVars, ingestVars>>

\* series.update(bar) of the chart library: a bar at the time of the last
\* one replaces it, a newer bar is appended, an older bar is refused with an
\* exception.
UpdateThrows(series, bar) ==
    Len(series) > 0 /\ bar.time < series[Len(series)].time

SeriesUpdate(series, bar) ==
    IF Len(series) > 0 /\ bar.time = series[Len(series)].time
    THEN [series EXCEPT ![Len(series)] = bar]
    ELSE Append(series, bar)

\* The current_bar branch applied to state.mainSeries and state.volumeSeries;
\* an exception of the first update leaves the second one out.
ApplyCurrentBar(current_bar) ==
    /\ mainSeries' = IF UpdateThrows(mainSeries, ChartBar(current_bar))
                     THEN mainSeries
                     ELSE SeriesUpdate(mainSeries, ChartBar(current_bar))
    /\ volumeSeries' =
          IF \/ UpdateThrows(mainSeries, ChartBar(current_bar))
             \/ UpdateThrows(volumeSeries, VolumeBar(current_bar))
          THEN volumeSeries
          ELSE SeriesUpdate(volumeSeries, VolumeBar(current_bar))
    /\ UNCHANGED bufferVars

\* onmessage with { current_bar }.
LiveBarMessage ==
    \E s \in sockets : \E t \in LiveTimes :
        /\ ApplyCurrentBar(LiveCandle(s.symbol, t))
        /\ handled' = Message(s, FALSE, <<LiveCandle(s.symbol, t)>>, 0)
        /\ toasts' = <<>>
        /\ UNCHANGED <<flagVars, windowVars, controlVars, sessionVars,
                       liveVars, netVars, ingestVars>>

\* --- loadInitialChart --------------------------------------------------------

\* Mutant: the request is sent without looking at the token.
loadInitialChart_without_token(token, symbol, thenConnect) ==
    /\ currentlyFetching' = TRUE
    /\ loadingIndicator' = TRUE
    /\ allDataLoaded' = FALSE
    /\ reqSeq' = reqSeq + 1
    /\ inflight' = inflight \cup
           {Request(reqSeq + 1, "initial", symbol, 0, 0, thenConnect)}

\* loadInitialChart() up to its await, called with state.sessionToken = token
\* and the symbol control at symbol; thenConnect tells whether the caller
\* chained .then(connectToLiveDataFeed).
loadInitialChart(token, symbol, thenConnect) ==
    IF token = NULL
    THEN UNCHANGED <<flagVars, inflight, reqSeq>>
    ELSE /\ currentlyFetching' = TRUE
         /\ loadingIndicator' = TRUE
         /\ allDataLoaded' = FALSE
         /\ reqSeq' = reqSeq + 1
         /\ inflight' = inflight \cup
                {Request(reqSeq + 1, "initial", symbol, 0, 0, thenConnect)}

\* The caller's .then callback, run when loadInitialChart has settled.
ThenConnect(r) ==
    IF r.thenConnect /\ sessionToken # NULL
    THEN connectToLiveDataFeed(symbolSelect, timezoneSelect)
    ELSE UNCHANGED liveVars

\* The notices of that callback.
ThenConnectToasts(r) ==
    IF r.thenConnect /\ sessionToken # NULL
    THEN ConnectToasts(timezoneSelect)
    ELSE <<>>

\* Mutant: a failed load empties the buffers.
InitialFailed_clears(r) ==
    /\ handled' = Response(r, "failed", 0)
    /\ allChartData' = <<>>
    /\ allVolumeData' = <<>>
    /\ UNCHANGED <<allDataLoaded, windowVars, seriesVars, server_windows>>

\* loadInitialChart() from the answer of /historical/ to its end.
\* fetchInitialHistoricalData threw (transport or HTTP failure).
InitialFailed(r) ==
    /\ handled' = Response(r, "failed", 0)
    /\ UNCHANGED <<allDataLoaded, windowVars, bufferVars, seriesVars,
                   server_windows>>

\* No request_id or no candles in the answer.
InitialNoData(r) ==
    /\ handled' = Response(r, "empty", 0)
    /\ mainSeries' = <<>>
    /\ volumeSeries' = <<>>
    /\ UNCHANGED <<allDataLoaded, windowVars, bufferVars, server_windows>>

\* An answer with candles: request_id, offset, is_partial.
InitialLoaded(r, offset, is_partial) ==
    /\ handled' = InitialAnswer(r, offset, is_partial)
    /\ chartRequestId' = r.id
    /\ chartCurrentOffset' = offset
    /\ allDataLoaded' = IF offset = 0 /\ ~is_partial THEN TRUE ELSE allDataLoaded
    /\ allChartData' = MapChart(Candles(r.symbol, offset))
    /\ allVolumeData' = MapVolume(Candles(r.symbol, offset))
    /\ mainSeries' = allChartData'
    /\ volumeSeries' = allVolumeData'
    /\ server_windows' = server_windows \cup {<<r.id, r.symbol>>}

\* loadInitialChart() after its await, with its finally block and the
\* caller's .then callback, when the window may also open at the short
\* offset.
ShortWindowResponse ==
    \E r \in InitialLoads :
        /\ \/ InitialFailed(r)
           \/ InitialNoData(r)
           \/ \E offset \in WindowOffsets, is_partial \in BOOLEAN :
                 InitialLoaded(r, offset, is_partial)
        /\ loadingIndicator' = FALSE
        /\ currentlyFetching' = FALSE
        /\ inflight' = inflight \ {r}
        /\ ThenConnect(r)
        /\ toasts' = LoadToasts(handled'.outcome) \o ThenConnectToasts(r)
        /\ UNCHANGED <<reqSeq, controlVars, sessionVars, ingestVars>>

\* Mutant: the return of the no-data branch skips the finally block.
InitialResponse_return_skips_finally ==
    \E r \in InitialLoads :
        /\ \/ InitialFailed(r)
           \/ InitialNoData(r)
           \/ \E offset \in Offsets, is_partial \in BOOLEAN :
                 InitialLoaded(r, offset, is_partial)
        /\ loadingIndicator' = (handled'.outcome = "empty" /\ loadingIndicator)
        /\ currentlyFetching' =
              (handled'.outcome = "empty" /\ currentlyFetching)
        /\ inflight' = inflight \ {r}
        /\ ThenConnect(r)
        /\ toasts' = LoadToasts(handled'.outcome) \o ThenConnectToasts(r)
        /\ UNCHANGED <<reqSeq, controlVars, sessionVars, ingestVars>>

\* loadInitialChart() after its await, with its finally block and the
\* caller's .then callback.
InitialResponse ==
    \E r \in InitialLoads :
        /\ \/ InitialFailed(r)
           \/ InitialNoData(r)
           \/ \E offset \in Offsets, is_partial \in BOOLEAN :
                 InitialLoaded(r, offset, is_partial)
        /\ loadingIndicator' = FALSE
        /\ currentlyFetching' = FALSE
        /\ inflight' = inflight \ {r}
        /\ ThenConnect(r)
        /\ toasts' = LoadToasts(handled'.outcome) \o ThenConnectToasts(r)
        /\ UNCHANGED <<reqSeq, controlVars, sessionVars, ingestVars>>

\* --- fetchAndPrependDataChunk -----------------------------------------------

\* Mutant: the request is sent whatever the sign of nextOffset.
fetchAndPrependDataChunk_no_floor ==
    /\ currentlyFetching' = TRUE
    /\ loadingIndicator' = TRUE
    /\ reqSeq' = reqSeq + 1
    /\ inflight' = inflight \cup
           {Request(reqSeq + 1, "chunk", "", chartRequestId,
                    chartCurrentOffset - DATA_CHUNK_SIZE, FALSE)}
    /\ UNCHANGED allDataLoaded

\* Mutant: the request steps back by two chunks.
fetchAndPrependDataChunk_two_chunks ==
    LET nextOffset == chartCurrentOffset - 2 * DATA_CHUNK_SIZE IN
    IF nextOffset < 0
    THEN /\ allDataLoaded' = TRUE
         /\ UNCHANGED <<currentlyFetching, loadingIndicator, inflight, reqSeq>>
    ELSE /\ currentlyFetching' = TRUE
         /\ loadingIndicator' = TRUE
         /\ reqSeq' = reqSeq + 1
         /\ inflight' = inflight \cup
                {Request(reqSeq + 1, "chunk", "", chartRequestId, nextOffset,
                         FALSE)}
         /\ UNCHANGED allDataLoaded

\* fetchAndPrependDataChunk() up to its await.
fetchAndPrependDataChunk ==
    LET nextOffset == chartCurrentOffset - DATA_CHUNK_SIZE IN
    IF nextOffset < 0
    THEN /\ allDataLoaded' = TRUE
         /\ UNCHANGED <<currentlyFetching, loadingIndicator, inflight, reqSeq>>
    ELSE /\ currentlyFetching' = TRUE
         /\ loadingIndicator' = TRUE
         /\ reqSeq' = reqSeq + 1
         /\ inflight' = inflight \cup
                {Request(reqSeq + 1, "chunk", "", chartRequestId, nextOffset,
                         FALSE)}
         /\ UNCHANGED allDataLoaded

\* Mutant: the listener does not look at allDataLoaded.
ScrollGuard_ignores_exhaustion ==
    ~(currentlyFetching \/ chartRequestId = 0)

\* The guard of the subscribeVisibleLogicalRangeChange listener.
ScrollGuard ==
    ~(currentlyFetching \/ allDataLoaded \/ chartRequestId = 0)

\* The visible range changed and newVisibleRange.from < 15.
ScrollNearStart ==
    /\ ScrollGuard
    /\ reqSeq < MaxRequests
    /\ fetchAndPrependDataChunk
    /\ handled' = Event("scroll")
    /\ toasts' = <<>>
    /\ UNCHANGED <<windowVars, bufferVars, seriesVars, controlVars,
                   sessionVars, liveVars, server_windows, ingestVars>>

\* The symbol of the window a chunk request names.
WindowSymbol(request_id) ==
    CHOOSE s \in ClientSymbols : <<request_id, s>> \in server_windows

\* Mutant: a failed chunk fetch ends the pagination.
ChunkFailed_marks_exhausted(r) ==
    /\ handled' = Response(r, "failed", 0)
    /\ allDataLoaded' = TRUE
    /\ UNCHANGED <<windowVars, bufferVars, seriesVars>>

\* fetchHistoricalChunk threw.
ChunkFailed(r) ==
    /\ handled' = Response(r, "failed", 0)
    /\ UNCHANGED <<allDataLoaded, windowVars, bufferVars, seriesVars>>

\* Mutant: an answer without candles moves the offset to the requested one.
ChunkEmpty_advances(r) ==
    /\ handled' = Response(r, "empty", 0)
    /\ allDataLoaded' = TRUE
    /\ chartCurrentOffset' = r.offset
    /\ UNCHANGED <<chartRequestId, bufferVars, seriesVars>>

\* An answer without candles.
ChunkEmpty(r) ==
    /\ handled' = Response(r, "empty", 0)
    /\ allDataLoaded' = TRUE
    /\ UNCHANGED <<windowVars, bufferVars, seriesVars>>

\* Mutant: only the price sequence receives the chunk.
ChunkLoaded_price_only(r, offset) ==
    LET candles == Candles(WindowSymbol(r.request_id), offset) IN
    /\ handled' = Response(r, "loaded", offset)
    /\ allChartData' = MapChart(candles) \o allChartData
    /\ allVolumeData' = allVolumeData
    /\ mainSeries' = allChartData'
    /\ volumeSeries' = allVolumeData'
    /\ chartCurrentOffset' = offset
    /\ allDataLoaded' = IF offset = 0 THEN TRUE ELSE allDataLoaded
    /\ UNCHANGED chartRequestId

\* Mutant: the offset is advanced by the client's own arithmetic.
ChunkLoaded_trusts_request(r, offset) ==
    LET candles == Candles(WindowSymbol(r.request_id), offset) IN
    /\ handled' = Response(r, "loaded", offset)
    /\ allChartData' = MapChart(candles) \o allChartData
    /\ allVolumeData' = MapVolume(candles) \o allVolumeData
    /\ mainSeries' = allChartData'
    /\ volumeSeries' = allVolumeData'
    /\ chartCurrentOffset' = r.offset
    /\ allDataLoaded' = IF r.offset = 0 THEN TRUE ELSE allDataLoaded
    /\ UNCHANGED chartRequestId

\* Mutant: an answer to a request of another window is discarded.
ChunkLoaded_filters_stale(r, offset) ==
    LET candles == Candles(WindowSymbol(r.request_id), offset) IN
    /\ handled' = Response(r, "loaded", offset)
    /\ IF r.request_id = chartRequestId
       THEN /\ allChartData' = MapChart(candles) \o allChartData
            /\ allVolumeData' = MapVolume(candles) \o allVolumeData
            /\ mainSeries' = allChartData'
            /\ volumeSeries' = allVolumeData'
            /\ chartCurrentOffset' = offset
            /\ allDataLoaded' = IF offset = 0 THEN TRUE ELSE allDataLoaded
       ELSE UNCHANGED <<bufferVars, seriesVars, chartCurrentOffset,
                        allDataLoaded>>
    /\ UNCHANGED chartRequestId

\* An answer with candles and the offset the server reports.
ChunkLoaded(r, offset) ==
    LET candles == Candles(WindowSymbol(r.request_id), offset) IN
    /\ handled' = Response(r, "loaded", offset)
    /\ allChartData' = MapChart(candles) \o allChartData
    /\ allVolumeData' = MapVolume(candles) \o allVolumeData
    /\ mainSeries' = allChartData'
    /\ volumeSeries' = allVolumeData'
    /\ chartCurrentOffset' = offset
    /\ allDataLoaded' = IF offset = 0 THEN TRUE ELSE allDataLoaded
    /\ UNCHANGED chartRequestId

ChunkResponse ==
    \E r \in ChunkFetches :
        /\ \/ ChunkFailed(r)
           \/ ChunkEmpty(r)
           \/ \E offset \in Offsets : ChunkLoaded(r, offset)
        /\ loadingIndicator' = FALSE
        /\ currentlyFetching' = FALSE
        /\ inflight' = inflight \ {r}
        /\ toasts' = ChunkToasts(handled'.outcome)
        /\ UNCHANGED <<reqSeq, server_windows, controlVars, sessionVars,
                       liveVars, ingestVars>>

\* --- main.js ------------------------------------------------------------------

\* initializeNewChartObject(): the old chart is removed, the new series are
\* empty.
initializeNewChartObject ==
    /\ mainSeries' = <<>>
    /\ volumeSeries' = <<>>

reinitializeAndLoadChart(symbol) ==
    /\ initializeNewChartObject
    /\ loadInitialChart(sessionToken, symbol, FALSE)

\* startSession() from the answer of /utils/session/initiate on: the token
\* is stored, loadInitialChart() is called and the heartbeat timer is set;
\* or initiateSession failed.
SessionResponse ==
    /\ sessionPending
    /\ sessionPending' = FALSE
    /\ \/ /\ sessionToken' = SESSION_TOKEN
          /\ heartbeatIntervalId' = 1
          /\ loadInitialChart(SESSION_TOKEN, symbolSelect, FALSE)
          /\ toasts' = <<Toast("session started", "info")>>
       \/ /\ toasts' = <<Toast("session", "error")>>
          /\ UNCHANGED <<sessionToken, heartbeatIntervalId, flagVars,
                         inflight, reqSeq>>
    /\ handled' = Event("session")
    /\ UNCHANGED heartbeats
    /\ UNCHANGED <<windowVars, bufferVars, seriesVars, controlVars,
                   liveVars, server_windows, ingestVars>>

\* What the server answered to a heartbeat: "ok", "expired" (a JSON body
\* whose status is not ok) or "failed" (the promise of sendHeartbeat
\* rejected).
Heartbeat(outcome) == [type |-> "heartbeat", outcome |-> outcome]

HeartbeatOutcomes == {"ok", "expired", "failed"}

\* Mutant: a heartbeat that fails stops the timer.
HeartbeatSettled_stops_timer(outcome) ==
    /\ heartbeatIntervalId' = IF outcome = "failed" THEN 0
                              ELSE heartbeatIntervalId
    /\ toasts' = <<>>
    /\ UNCHANGED sessionToken

\* The promise of sendHeartbeat settled: a rejection is logged by .catch, a
\* fulfilment is dropped.
HeartbeatSettled(outcome) ==
    /\ toasts' = <<>>
    /\ UNCHANGED <<sessionToken, heartbeatIntervalId>>

\* The callback of setInterval(..., 60000) in startSession.
HeartbeatTick ==
    /\ heartbeatIntervalId # 0
    /\ heartbeats < MaxHeartbeats
    /\ heartbeats' = IF sessionToken # NULL THEN heartbeats + 1 ELSE heartbeats
    /\ handled' = Event("tick")
    /\ toasts' = <<>>
    /\ UNCHANGED <<sessionToken, heartbeatIntervalId, sessionPending,
                   flagVars, windowVars, bufferVars, seriesVars, controlVars,
                   liveVars, netVars, ingestVars>>

\* The answer to /utils/session/heartbeat.
HeartbeatResponse ==
    /\ heartbeats > 0
    /\ heartbeats' = heartbeats - 1
    /\ \E outcome \in HeartbeatOutcomes :
          /\ HeartbeatSettled(outcome)
          /\ handled' = Heartbeat(outcome)
    /\ UNCHANGED <<sessionPending, flagVars, windowVars, bufferVars,
                   seriesVars, controlVars, liveVars, netVars, ingestVars>>

\* --- 7-event-listeners.js: setupControlListeners ------------------------------

\* 'change' on the exchange, symbol or interval control.
ContextChange ==
    /\ reqSeq < MaxRequests
    /\ \E symbol \in ClientSymbols :
        /\ symbolSelect' = symbol
        /\ IF liveToggle
           THEN /\ loadInitialChart(sessionToken, symbol, TRUE)
                /\ UNCHANGED seriesVars
           ELSE reinitializeAndLoadChart(symbol)
    /\ handled' = LoadEvent("context")
    /\ toasts' = <<>>
    /\ UNCHANGED <<timezoneSelect, liveToggle, windowVars, bufferVars,
                   sessionVars, liveVars, server_windows, ingestVars>>

\* 'change' on the start time, end time or timezone control.
TimeChange ==
    /\ reqSeq < MaxRequests
    /\ \E tz \in Timezones : timezoneSelect' = tz
    /\ liveToggle' = FALSE
    /\ reinitializeAndLoadChart(symbolSelect)
    /\ handled' = LoadEvent("time")
    /\ toasts' = <<>>
    /\ UNCHANGED <<symbolSelect, windowVars, bufferVars, sessionVars, liveVars,
                   server_windows, ingestVars>>

\* 'change' on the live toggle: the user checks or unchecks it.
LiveToggleChange ==
    /\ liveToggle' = ~liveToggle
    /\ IF liveToggle'
       THEN /\ reqSeq < MaxRequests
            /\ loadInitialChart(sessionToken, symbolSelect, TRUE)
            /\ UNCHANGED liveVars
       ELSE /\ disconnectFromLiveDataFeed
            /\ UNCHANGED <<flagVars, inflight, reqSeq>>
    /\ handled' = IF liveToggle' THEN LoadEvent("toggle")
                  ELSE Event("toggle")
    /\ toasts' = <<>>
    /\ UNCHANGED <<symbolSelect, timezoneSelect, windowVars, bufferVars,
                   seriesVars, sessionVars, server_windows, ingestVars>>

(***************************************************************************)
(* Specifications.                                                         *)
(***************************************************************************)
\* The page after DOMContentLoaded: controls at their defaults, an empty
\* chart, startSession() waiting for /utils/session/initiate.
InitChart ==
    /\ sessionToken = NULL
    /\ heartbeatIntervalId = 0
    /\ currentlyFetching = FALSE
    /\ loadingIndicator = FALSE
    /\ allDataLoaded = FALSE
    /\ chartRequestId = 0
    /\ chartCurrentOffset = 0
    /\ allChartData = <<>>
    /\ allVolumeData = <<>>
    /\ mainSeries = <<>>
    /\ volumeSeries = <<>>
    /\ symbolSelect = "AAPL"
    /\ timezoneSelect = "America/New_York"
    /\ liveToggle = FALSE
    /\ liveDataSocket = 0
    /\ sockets = {}
    /\ socketSeq = 0
    /\ sessionPending = TRUE
    /\ inflight = {}
    /\ reqSeq = 0
    /\ server_windows = {}
    /\ handled = NoInput
    /\ toasts = <<>>
    /\ heartbeats = 0

InitListenerAll == InitListener /\ InitChart

InitMainAll == InitMain /\ InitChart

InitClient == InitChart /\ InitListener

NextClient ==
    \/ SessionResponse
    \/ InitialResponse
    \/ ScrollNearStart
    \/ ChunkResponse
    \/ ContextChange
    \/ TimeChange
    \/ LiveToggleChange

SpecClient == InitClient /\ [][NextClient]_vars

\* The chart with the messages of its live socket.
NextLive ==
    \/ SessionResponse
    \/ InitialResponse
    \/ ChunkResponse
    \/ ScrollNearStart /\ WithinLive
    \/ ContextChange /\ WithinLive
    \/ TimeChange /\ WithinLive
    \/ LiveToggleChange /\ WithinLive
    \/ BackfillMessage
    \/ LiveBarMessage

SpecLive == InitClient /\ [][NextLive]_vars

\* The chart's loads, chunk fetches and socket life cycle within a budget
\* that lets every request of a behaviour be followed to its answer.
NextChart ==
    \/ SessionResponse
    \/ InitialResponse
    \/ ChunkResponse
    \/ ScrollNearStart /\ WithinChart
    \/ ContextChange /\ WithinChart
    \/ TimeChange /\ WithinChart
    \/ LiveToggleChange /\ WithinChart

SpecChart == InitClient /\ [][NextChart]_vars

\* The page with its heartbeat timer.
NextSession ==
    \/ SessionResponse
    \/ InitialResponse
    \/ ChunkResponse
    \/ ScrollNearStart /\ WithinSession
    \/ ContextChange /\ WithinSession
    \/ TimeChange /\ WithinSession
    \/ LiveToggleChange /\ WithinSession
    \/ HeartbeatTick
    \/ HeartbeatResponse

SpecSession == InitClient /\ [][NextSession]_vars

\* The page when the server's window need not start at a multiple of the
\* chunk size.
NextWindow ==
    \/ SessionResponse
    \/ ShortWindowResponse
    \/ ChunkResponse
    \/ ScrollNearStart /\ WithinSession
    \/ ContextChange /\ WithinSession
    \/ TimeChange /\ WithinSession
    \/ LiveToggleChange /\ WithinSession

SpecWindow == InitClient /\ [][NextWindow]_vars

\* The chart's loads and chunk fetches under changes of the symbol, with the
\* budget of NextChart.
NextPaging ==
    \/ SessionResponse
    \/ InitialResponse
    \/ ChunkResponse
    \/ ScrollNearStart /\ WithinChart
    \/ ContextChange /\ WithinChart

SpecPaging == InitClient /\ [][NextPaging]_vars

NextListener == HistoryBar \/ LatestBarUpdate \/ LiveBar

SpecListener == InitListenerAll /\ [][NextListener]_vars

\* The listener over a Redis whose calls may raise.
NextRedis == RedisHistoryBar \/ LatestBarUpdate \/ RedisLiveBar

SpecRedis == InitListenerAll /\ [][NextRedis]_vars

NextMain ==
    \/ ClearSymbolCache
    \/ GetBarConn
    \/ AddListener
    \/ Watch
    \/ Interrupt
    \/ VerboseHistoryBar
    \/ VerboseLatestBarUpdate
    \/ VerboseLiveBar

SpecMain == InitMainAll /\ [][NextMain]_vars

(***************************************************************************)
(* Properties of the listener, stated over the delivered feed.             *)
(***************************************************************************)
FeedIdx == 1..Len(feed)

BarOf(i) == _prepare_bar_data(feed[i].rec)

\* Number of entries of the sequence q equal to x.
Count(q, x) == Cardinality({k \in 1..Len(q) : q[k] = x})

\* Message i is a backfill-end sentinel of symbol s.
IsSentinel(i, s) == feed[i].handler = "update" /\ feed[i].rec.symbol = s

\* Message i is a live bar of symbol s that _prepare_bar_data converted.
IsNormalizedLive(i, s) ==
    /\ feed[i].handler = "live"
    /\ feed[i].rec.symbol = s
    /\ feed[i].rec.valid_datetime

\* Message i is a history bar of symbol s that the handler accepts.
IsAcceptedHistory(i, s) ==
    /\ feed[i].handler = "history"
    /\ feed[i].rec.symbol = s
    /\ feed[i].rec.valid_datetime
    /\ ~(feed[i].rec.high_p = 0 /\ feed[i].rec.low_p = 0)

\* Message i is a history or live record the handler cannot convert.
IsMalformed(i) ==
    /\ feed[i].handler \in {"history", "live"}
    /\ \/ feed[i].rec.symbol = BadSymbolBytes
       \/ ~feed[i].rec.valid_datetime
    /\ ~(feed[i].handler = "history"
         /\ feed[i].rec.high_p = 0 /\ feed[i].rec.low_p = 0)

IsPlaceholder(bar) == bar.high = 0 /\ bar.low = 0

\* C1: for every symbol the "Lookback complete" line has been logged exactly
\* once as soon as the feed has delivered a sentinel or a converted live bar
\* of that symbol, and not at all before; it is never logged a second time.
C1_LiveSignalExactlyOnce ==
    \A s \in Symbols :
        lookback_log[s] =
            IF \E i \in FeedIdx : IsSentinel(i, s) \/ IsNormalizedLive(i, s)
            THEN 1 ELSE 0

\* A symbol that got a sentinel and, later, converted live bars.
C1_Witness ==
    \E s \in Symbols : \E i, j, k \in FeedIdx :
        /\ i < j /\ j < k
        /\ IsSentinel(i, s) /\ IsNormalizedLive(j, s) /\ IsNormalizedLive(k, s)
        /\ lookback_log[s] = 1

\* C2: history records never publish: a channel carries as many messages as
\* live bars of its symbol were converted, and no message on any channel is
\* the bar of a history record.
C2_HistoryNeverPublishes ==
    \A s \in Symbols :
        /\ Len(published[s]) =
               Cardinality({i \in FeedIdx : IsNormalizedLive(i, s)})
        /\ \A i \in FeedIdx :
               feed[i].handler = "history" => Count(published[s], BarOf(i)) = 0

\* An accepted history bar and a live bar of the same symbol were processed.
C2_Witness ==
    \E s \in Symbols : \E i, j \in FeedIdx :
        /\ IsAcceptedHistory(i, s) /\ IsNormalizedLive(j, s)
        /\ Len(cache[s]) = 2 /\ Len(published[s]) = 1

\* C3 (as claimed): no record with high = low = 0 is ever in a cache list or
\* on a channel, whichever handler received it.
C3_PlaceholderNeverStored ==
    \A s \in Symbols :
        /\ \A k \in 1..Len(cache[s]) : ~IsPlaceholder(cache[s][k])
        /\ \A k \in 1..Len(published[s]) : ~IsPlaceholder(published[s][k])

\* C4: every converted live bar is exactly once on its symbol's channel and
\* exactly once in its symbol's list, and on no other channel or list.
C4_LiveBarOncePerSymbol ==
    \A s \in Symbols : \A i \in FeedIdx :
        IsNormalizedLive(i, s) =>
            /\ Count(published[s], BarOf(i)) = 1
            /\ Count(cache[s], BarOf(i)) = 1
            /\ \A o \in Symbols \ {s} :
                   /\ Count(published[o], BarOf(i)) = 0
                   /\ Count(cache[o], BarOf(i)) = 0

\* Live bars of two different symbols were processed.
C4_Witness ==
    \E s, o \in Symbols : \E i, j \in FeedIdx :
        /\ s # o
        /\ IsNormalizedLive(i, s) /\ IsNormalizedLive(j, o)
        /\ Len(published[s]) = 1 /\ Len(published[o]) = 1

\* C6 (as claimed): the bar carried by every sentinel of a symbol is on the
\* symbol's channel and in the symbol's list.
C6_SentinelPayloadProcessedAsLive ==
    \A s \in Symbols : \A i \in FeedIdx :
        IsSentinel(i, s) =>
            /\ Count(published[s], BarOf(i)) = 1
            /\ Count(cache[s], BarOf(i)) = 1

\* C6 (amended): process_latest_bar_update only emits the live-transition
\* log; the bar a sentinel carries is neither published nor cached, whether
\* or not the symbol has already transitioned.
C6_SentinelPayloadIgnored ==
    \A i \in FeedIdx :
        feed[i].handler = "update" =>
            \A s \in Symbols :
                /\ Count(published[s], BarOf(i)) = 0
                /\ Count(cache[s], BarOf(i)) = 0

\* A first sentinel and a repeated sentinel of the same symbol.
C6_Witness ==
    \E s \in Symbols : \E i, j \in FeedIdx :
        /\ i < j /\ IsSentinel(i, s) /\ IsSentinel(j, s)
        /\ s \in completed_lookbacks

\* C8: a malformed history or live record never raises out of its handler
\* and leaves nothing in any list or channel, and every well-formed record,
\* also one that follows a malformed one, is cached (and published if live).
C8_MalformedDropped ==
    /\ ~raised
    /\ error_log = Cardinality({i \in FeedIdx : IsMalformed(i)
                                   \/ (feed[i].handler = "update"
                                       /\ feed[i].rec.symbol = BadSymbolBytes)})
    /\ \A i \in FeedIdx : \A s \in Symbols :
        /\ IsMalformed(i) =>
              Count(cache[s], BarOf(i)) = 0 /\ Count(published[s], BarOf(i)) = 0
        /\ IsAcceptedHistory(i, s) => Count(cache[s], BarOf(i)) = 1
        /\ IsNormalizedLive(i, s) =>
              Count(cache[s], BarOf(i)) = 1 /\ Count(published[s], BarOf(i)) = 1

\* A malformed record followed by a well-formed history bar and a live bar.
C8_Witness ==
    \E s \in Symbols : \E i, j, k \in FeedIdx :
        /\ i < j /\ i < k
        /\ IsMalformed(i) /\ IsAcceptedHistory(j, s) /\ IsNormalizedLive(k, s)
        /\ error_log >= 1

\* The messages of symbol s, in delivery order.
RECURSIVE FeedOf(_, _)
FeedOf(s, n) ==
    IF n = 0 THEN <<>>
    ELSE IF feed[n].rec.symbol = s
         THEN Append(FeedOf(s, n - 1), n) ELSE FeedOf(s, n - 1)

\* The feed of symbol s so far is history bars, then the one sentinel, then
\* live bars, every record accepted by the handlers.
InProtocolOrder(s) ==
    LET q == FeedOf(s, Len(feed)) IN
    /\ \E k \in 1..Len(q) :
        /\ k > 1 /\ k < Len(q)
        /\ IsSentinel(q[k], s)
        /\ \A j \in 1..(k - 1) : IsAcceptedHistory(q[j], s)
        /\ \A j \in (k + 1)..Len(q) :
              IsNormalizedLive(q[j], s) /\ ~IsPlaceholder(BarOf(q[j]))

\* The bars of the history and live messages of symbol s, in delivery order.
RECURSIVE BarsOf(_, _)
BarsOf(s, n) ==
    IF n = 0 THEN <<>>
    ELSE IF IsAcceptedHistory(n, s) \/ IsNormalizedLive(n, s)
         THEN Append(BarsOf(s, n - 1), BarOf(n)) ELSE BarsOf(s, n - 1)

\* C5 (as claimed): once the service is started and the feed of a symbol is
\* history bars, the sentinel, then live bars, the symbol's list holds those
\* bars in arrival order, its channel carries one message per live bar and
\* the live transition was logged once.
C5_EndToEndIngestion ==
    \A s \in Symbols :
        (pc_main[1] = "running" /\ InProtocolOrder(s)) =>
            /\ cache[s] = BarsOf(s, Len(feed))
            /\ Len(published[s]) =
                   Cardinality({i \in FeedIdx : IsNormalizedLive(i, s)})
            /\ lookback_log[s] = 1

\* C7: once main has issued a watch request or a record of this run has been
\* delivered, no configured symbol's list holds a bar of the previous run.
C7_CacheClearedBeforeWatch ==
    (watched # {} \/ Len(feed) > 0) =>
        \A s \in Symbols : \A k \in 1..Len(cache[s]) :
            Count(prev_run[s], cache[s][k]) = 0

\* Every symbol had stale bars, and a record of this run has been delivered.
C7_Witness ==
    /\ \A s \in Symbols : prev_run[s] # <<>>
    /\ watched # {}
    /\ Len(feed) > 0

(***************************************************************************)
(* Properties of the chart client.                                         *)
(***************************************************************************)
\* C9 (as claimed): there are never two loadInitialChart requests
\* outstanding at the same time.
C9_AtMostOneInitialLoad == Cardinality(InitialLoads) <= 1

\* C10 (as claimed): there are never two chunk requests outstanding, and a
\* chunk request is only ever sent while allDataLoaded is false.
C10_AtMostOneChunkFetch ==
    [][/\ Cardinality(ChunkFetches') <= 1
       /\ (ChunkFetches' \ ChunkFetches # {}) => ~allDataLoaded]_vars

\* C11: at most one live socket is open, it is the one liveDataSocket refers
\* to and the newest one created: connectToLiveDataFeed has closed the socket
\* it replaces by the time the new one exists.
C11_AtMostOneOpenSocket ==
    /\ Cardinality(sockets) <= 1
    /\ \A s \in sockets : s.id = liveDataSocket /\ s.id = socketSeq

\* A socket is open that connectToLiveDataFeed created while another one was
\* in use.
C11_Witness == \E s \in sockets : s.previous # 0

\* C12: every chunk request in flight carries an offset >= 0, and a scroll
\* that finds chartCurrentOffset - DATA_CHUNK_SIZE < 0 sets allDataLoaded and
\* sends nothing, leaving the buffers and the offset as they were.
C12_PaginationNeverNegative ==
    [][/\ \A r \in ChunkFetches' : r.offset >= 0
       /\ (handled'.type = "scroll"
            /\ chartCurrentOffset - DATA_CHUNK_SIZE < 0)
          => /\ allDataLoaded'
             /\ inflight' = inflight
             /\ UNCHANGED <<bufferVars, chartCurrentOffset>>]_vars

\* The scroll listener has called fetchAndPrependDataChunk at an offset below
\* the chunk size: the window is marked exhausted and nothing is in flight.
C12_Witness ==
    /\ handled.type = "scroll"
    /\ chartRequestId # 0
    /\ chartCurrentOffset - DATA_CHUNK_SIZE < 0
    /\ allDataLoaded
    /\ inflight = {}

\* C13: an answer to a chunk request that carries candles sets
\* chartCurrentOffset to the offset of the answer, whatever was requested,
\* and turns allDataLoaded to true exactly if that offset is 0 (it never
\* turns it back to false).
C13_ServerOffsetTrusted ==
    [][(/\ handled'.type = "response"
        /\ handled'.kind = "chunk"
        /\ handled'.outcome = "loaded")
       => /\ chartCurrentOffset' = handled'.offset
          /\ allDataLoaded' = (allDataLoaded \/ handled'.offset = 0)]_vars

\* A chunk requested at offset DATA_CHUNK_SIZE has been answered with
\* offset 0: the client is exhausted.
C13_Witness ==
    /\ handled.type = "response"
    /\ handled.kind = "chunk"
    /\ handled.outcome = "loaded"
    /\ handled.requested = DATA_CHUNK_SIZE
    /\ handled.offset = 0
    /\ chartCurrentOffset = 0
    /\ allDataLoaded

\* A chunk answered with an offset other than the requested one and other
\* than 0: the client follows it and is not exhausted.
C13_WitnessNotExhausted ==
    /\ handled.type = "response"
    /\ handled.kind = "chunk"
    /\ handled.outcome = "loaded"
    /\ handled.offset # handled.requested
    /\ chartCurrentOffset = handled.offset
    /\ ~allDataLoaded

\* --- the live merges ------------------------------------------------------

\* The timestamps of an array of candles increase strictly.
IsOrdered(data) ==
    \A i \in 1..(Len(data) - 1) :
        data[i].unix_timestamp < data[i + 1].unix_timestamp

\* The timestamps of a buffer increase strictly.
IsStrictlyIncreasing(buffer) ==
    \A i \in 1..(Len(buffer) - 1) : buffer[i].time < buffer[i + 1].time

\* Applying the array again to the buffers it has just been applied to
\* appends nothing.
SecondApplicationAppendsNothing(data) ==
    LET last == LastHistoricalTime(allChartData') IN
    /\ NewBars(MapChart(data), last) = <<>>
    /\ MergeBackfill(allChartData', MapChart(data), last) = allChartData'
    /\ MergeBackfill(allVolumeData', MapVolume(data), last) = allVolumeData'

\* C14 (as claimed): whatever array the socket delivers, a second
\* application of it appends nothing and the buffer holds no timestamp
\* twice.
C14_BackfillIdempotent ==
    [][(handled'.type = "message" /\ handled'.array)
       => /\ SecondApplicationAppendsNothing(handled'.data)
          /\ \A i, j \in 1..Len(allChartData') :
                i # j => allChartData'[i].time # allChartData'[j].time]_vars

\* C14 (amended): for an array whose timestamps increase strictly a second
\* application appends nothing, and every bar the first application appended
\* is newer than the bar before it.
C14_OrderedBackfillIdempotent ==
    [][(handled'.type = "message" /\ handled'.array
        /\ IsOrdered(handled'.data))
       => /\ SecondApplicationAppendsNothing(handled'.data)
          /\ \A i \in (Len(allChartData) + 1)..Len(allChartData') :
                allChartData'[i].time >
                    (IF i = 1 THEN 0 ELSE allChartData'[i - 1].time)]_vars

\* An ordered, non-empty array has been applied to a buffer that already
\* held its bars: nothing was appended.
C14_Witness ==
    /\ handled.type = "message"
    /\ handled.array
    /\ Len(handled.data) > 1
    /\ IsOrdered(handled.data)
    /\ handled.applied = 0
    /\ LastHistoricalTime(allChartData) =
          handled.data[Len(handled.data)].unix_timestamp

\* C15 (as claimed): a current_bar at the buffer's last timestamp replaces
\* the last entry of allChartData and allVolumeData, a newer one is appended
\* to both.
C15_UpdateOrAppendOnBuffer ==
    [][(handled'.type = "message" /\ ~handled'.array)
       => LET current_bar == handled'.data[1]
              n == Len(allChartData)
          IN  /\ (n > 0 /\ current_bar.unix_timestamp = allChartData[n].time)
                 => /\ allChartData' =
                          [allChartData EXCEPT ![n] = ChartBar(current_bar)]
                    /\ allVolumeData' =
                          [allVolumeData EXCEPT ![n] = VolumeBar(current_bar)]
              /\ current_bar.unix_timestamp > LastHistoricalTime(allChartData)
                 => /\ allChartData' =
                          Append(allChartData, ChartBar(current_bar))
                    /\ allVolumeData' =
                          Append(allVolumeData, VolumeBar(current_bar))]_vars

\* --- the buffers ----------------------------------------------------------

\* The input of a step is as the server promises: a chunk answer carries the
\* offset that was requested, an array is ordered.
AsPromised(input) ==
    /\ (input.type = "response" /\ input.kind = "chunk"
        /\ input.outcome = "loaded") => input.offset = input.requested
    /\ (input.type = "message" /\ input.array) => IsOrdered(input.data)

\* C16 (as claimed): with inputs as the server promises them, the
\* timestamps of allChartData keep increasing strictly.
C16_StrictlyIncreasing ==
    [][(IsStrictlyIncreasing(allChartData) /\ AsPromised(handled'))
       => IsStrictlyIncreasing(allChartData')]_vars

\* C17: allChartData and allVolumeData have the same length and the same
\* timestamp at every index.
C17_BuffersAligned ==
    /\ Len(allChartData) = Len(allVolumeData)
    /\ \A i \in 1..Len(allChartData) :
          allChartData[i].time = allVolumeData[i].time

\* A backfill array has appended bars to the bars of an initial load.
C17_Witness ==
    /\ handled.type = "message"
    /\ handled.array
    /\ handled.applied > 0
    /\ Len(allChartData) = 2 + handled.applied

\* A chunk has been put in front of the bars of an initial load.
C17_WitnessPrepend ==
    /\ handled.type = "response"
    /\ handled.kind = "chunk"
    /\ handled.outcome = "loaded"
    /\ Len(allVolumeData) = 4

\* C18: neither the call of loadInitialChart nor its failure changes
\* allChartData or allVolumeData.
C18_FailedLoadKeepsBuffers ==
    [][(\/ handled'.type \in {"session", "context", "time", "toggle"}
        \/ /\ handled'.type = "response"
           /\ handled'.kind = "initial"
           /\ handled'.outcome = "failed")
       => UNCHANGED bufferVars]_vars

\* A load has failed over a buffer that holds bars.
C18_Witness ==
    /\ handled.type = "response"
    /\ handled.kind = "initial"
    /\ handled.outcome = "failed"
    /\ allChartData # <<>>
    /\ allVolumeData # <<>>

\* C19 (as claimed): after a load that is answered without bars both buffers
\* are empty.
C19_NoDataEmptiesBuffers ==
    [][(/\ handled'.type = "response"
        /\ handled'.kind = "initial"
        /\ handled'.outcome = "empty")
       => (allChartData' = <<>> /\ allVolumeData' = <<>>)]_vars

\* C20 (as claimed): when the context or the time range is changed while a
\* socket is open, the socket is closed in the step that issues the reload.
C20_ContextChangeDetachesFirst ==
    [][(handled'.type \in {"context", "time"} /\ sockets # {})
       => sockets' = {}]_vars

\* --- the live connection -----------------------------------------------------

\* The step answers an initial load whose caller chained
\* .then(connectToLiveDataFeed), and the callback calls it.
ConnectCalled ==
    /\ handled'.type = "response"
    /\ handled'.kind = "initial"
    /\ sessionToken # NULL
    /\ \E r \in inflight : r.id = handled'.id /\ r.thenConnect

\* C21: connectToLiveDataFeed called while the timezone selection is empty
\* shows an error notice, creates no socket and returns with no live
\* connection open.
C21_EmptyTimezoneRefused ==
    [][ConnectCalled /\ timezoneSelect = ""
        => /\ \E i \in DOMAIN toasts' : toasts'[i] = Toast("timezone", "error")
           /\ socketSeq' = socketSeq
           /\ liveDataSocket' = 0
           /\ sockets' = {}]_vars

\* A refused connection: the last step answered the load of a checked live
\* toggle while no timezone was selected.
C21_Witness ==
    /\ handled.type = "response"
    /\ handled.kind = "initial"
    /\ liveToggle
    /\ timezoneSelect = ""
    /\ Toast("timezone", "error") \in {toasts[i] : i \in DOMAIN toasts}
    /\ liveDataSocket = 0

\* The step is the live toggle's listener calling disconnectFromLiveDataFeed.
DisconnectCalled == handled'.type = "toggle" /\ ~liveToggle'

\* C22: disconnectFromLiveDataFeed is idempotent and always safe: without a
\* connection it changes nothing, after it the reference is null and the
\* socket it referred to is closed (so a second call finds nothing to do),
\* and the disconnect shows no 'disconnected' notice.
C22_DisconnectIdempotent ==
    [][DisconnectCalled
        => /\ liveDataSocket' = 0
           /\ \A s \in sockets' : s.id # liveDataSocket
           /\ sockets' \subseteq sockets
           /\ socketSeq' = socketSeq
           /\ liveDataSocket = 0 => UNCHANGED liveVars
           /\ toasts' = <<>>]_vars

\* The toggle was unchecked while a socket was attached: it is closed.
C22_Witness ==
    /\ handled.type = "toggle"
    /\ ~liveToggle
    /\ socketSeq > 0
    /\ liveDataSocket = 0
    /\ sockets = {}

\* The toggle was unchecked with no socket ever attached.
C22_WitnessNoConnection ==
    /\ handled.type = "toggle"
    /\ ~liveToggle
    /\ socketSeq = 0
    /\ liveDataSocket = 0

\* --- pagination --------------------------------------------------------------

\* The step answers the chunk request for offset 0 with candles and offset 0.
LastChunkLoaded ==
    /\ handled'.type = "response"
    /\ handled'.kind = "chunk"
    /\ handled'.outcome = "loaded"
    /\ handled'.requested = 0
    /\ handled'.offset = 0

\* C23: when the chunk requested at offset 0 arrives with offset 0, its M
\* bars are put in front of the N bars held, allDataLoaded is true, and as
\* long as it is true no scroll event sends a request or changes the state.
C23_PaginationEndToEnd ==
    [][/\ LastChunkLoaded
          => /\ \E symbol \in ClientSymbols :
                  /\ allChartData' =
                        MapChart(Candles(symbol, 0)) \o allChartData
                  /\ allVolumeData' =
                        MapVolume(Candles(symbol, 0)) \o allVolumeData
             /\ Len(allChartData') = Len(allChartData) + 2
             /\ allDataLoaded'
       /\ allDataLoaded => handled'.type # "scroll"]_vars

\* The scenario of the claim: the initial load returned offset 5000, the
\* chunk requested at offset 0 returned offset 0; both pages are held, the
\* older one in front.
C23_Witness ==
    /\ handled.type = "response"
    /\ handled.kind = "chunk"
    /\ handled.outcome = "loaded"
    /\ handled.requested = 0
    /\ handled.offset = 0
    /\ allChartData = MapChart(Candles(symbolSelect, 0))
                          \o MapChart(Candles(symbolSelect, DATA_CHUNK_SIZE))
    /\ allDataLoaded
    /\ inflight = {}

\* --- loads and fetches -------------------------------------------------------

\* The step is a listener of the controls, each of which calls
\* loadInitialChart (the live toggle when it is checked).
LoadCalled ==
    \/ handled'.type \in {"context", "time"}
    \/ handled'.type = "toggle" /\ liveToggle'

\* C24: loadInitialChart called without a session token sends no request
\* and changes none of currentlyFetching, allDataLoaded, the request window
\* and the buffers.
C24_NoTokenNoLoad ==
    [][LoadCalled /\ sessionToken = NULL
        => UNCHANGED <<currentlyFetching, allDataLoaded, windowVars,
                       bufferVars, inflight, reqSeq>>]_vars

\* A listener called loadInitialChart after startSession had failed.
C24_Witness ==
    /\ handled.type \in {"context", "time", "toggle"}
    /\ sessionToken = NULL
    /\ ~sessionPending
    /\ liveToggle
    /\ symbolSelect = "AMZN"
    /\ reqSeq = 0

\* --- the session -------------------------------------------------------------

\* C25: a heartbeat that fails (the request rejected or answered with a
\* status other than ok) leaves the session token, the timer, the buffers
\* and the live connection as they were, and the timer's callback still
\* sends heartbeats.
C25_HeartbeatFailureNonFatal ==
    [][handled'.type = "heartbeat" /\ handled'.outcome # "ok"
        => /\ UNCHANGED <<sessionToken, heartbeatIntervalId, bufferVars,
                          liveVars>>
           /\ heartbeatIntervalId' # 0
           /\ sessionToken' # NULL]_vars

\* A heartbeat failed while the chart held bars and a live socket was open.
C25_Witness ==
    /\ handled = Heartbeat("failed")
    /\ heartbeatIntervalId # 0
    /\ sessionToken = SESSION_TOKEN
    /\ allChartData # <<>>
    /\ liveDataSocket # 0
    /\ sockets # {}

\* C26: the answer with candles to loadInitialChart leaves allDataLoaded
\* true exactly when it reports offset 0 and is not partial.
C26_InitialLoadSetsExhaustion ==
    [][/\ handled'.type = "response"
       /\ handled'.kind = "initial"
       /\ handled'.outcome = "loaded"
       => (allDataLoaded' <=> handled'.offset = 0 /\ ~handled'.is_partial)]_vars

\* C27: a chunk answer without candles sets allDataLoaded and leaves the
\* buffers, chartRequestId and chartCurrentOffset as they were.
C27_EmptyChunkExhausts ==
    [][/\ handled'.type = "response"
       /\ handled'.kind = "chunk"
       /\ handled'.outcome = "empty"
       => allDataLoaded' /\ UNCHANGED <<bufferVars, windowVars>>]_vars

\* An empty chunk arrived for a chart that holds bars at a positive offset.
C27_Witness ==
    /\ handled.type = "response"
    /\ handled.kind = "chunk"
    /\ handled.outcome = "empty"
    /\ allDataLoaded
    /\ allChartData # <<>>
    /\ chartCurrentOffset > 0

\* C28: once a loadInitialChart has completed, with bars, without bars or
\* with a failure, chartRequestId is not the id of a window that is older
\* than that load.
C28_WindowReplaced ==
    [][handled'.type = "response" /\ handled'.kind = "initial"
        => ~(chartRequestId' # 0 /\ chartRequestId' < handled'.id)]_vars

\* C29: once the answer to a load or chunk fetch has been delivered,
\* currentlyFetching is false and the loading indicator hidden; they are
\* so whenever no request is waiting for its answer.
C29_FetchingFlagCleared ==
    /\ handled.type = "response" => ~currentlyFetching /\ ~loadingIndicator
    /\ inflight = {} => ~currentlyFetching /\ ~loadingIndicator

\* A load answered without candles and a failed chunk fetch, each with the
\* flag cleared.
C29_Witness ==
    /\ handled.type = "response"
    /\ handled.kind = "initial"
    /\ handled.outcome = "empty"
    /\ ~currentlyFetching
    /\ ~loadingIndicator
    /\ inflight = {}

C29_WitnessChunk ==
    /\ handled.type = "response"
    /\ handled.kind = "chunk"
    /\ handled.outcome = "failed"
    /\ ~currentlyFetching
    /\ ~loadingIndicator

\* C30: a failed chunk fetch leaves the buffers, chartRequestId,
\* chartCurrentOffset and allDataLoaded as they were and sends nothing; a
\* chunk request is only ever sent by a scroll event.
C30_FailedChunkNotRetried ==
    [][/\ /\ handled'.type = "response"
          /\ handled'.kind = "chunk"
          /\ handled'.outcome = "failed"
          => /\ UNCHANGED <<bufferVars, windowVars, allDataLoaded, reqSeq>>
             /\ inflight' \subseteq inflight
       /\ ChunkFetches' \ ChunkFetches # {} => handled'.type = "scroll"]_vars

\* A chunk fetch failed: the notice is shown, the bars are held and the
\* pagination is not marked exhausted.
C30_Witness ==
    /\ handled.type = "response"
    /\ handled.kind = "chunk"
    /\ handled.outcome = "failed"
    /\ toasts = <<Toast("older data", "error")>>
    /\ allChartData # <<>>
    /\ ~allDataLoaded
    /\ inflight = {}

\* --- the request window ------------------------------------------------------

\* The step answers the request that the listener of the step before sent
\* by calling loadInitialChart: nothing ran between the call and its answer.
LoadAnswered ==
    /\ "before" \in DOMAIN handled
    /\ handled'.type = "response"
    /\ handled'.kind = "initial"
    /\ handled'.id = reqSeq

\* C31: a loadInitialChart that fails leaves chartRequestId,
\* chartCurrentOffset and allDataLoaded with the values they had before the
\* call.
C31_FailedLoadKeepsWindow ==
    [][LoadAnswered /\ handled'.outcome = "failed"
        => Window' = handled.before]_vars

\* The windows the server has opened: the request ids of the initial loads
\* answered with candles.
OpenedWindows == {w[1] : w \in server_windows}

\* The step handles an answer with candles to the request r.
Loaded(r) ==
    /\ handled'.type = "response"
    /\ handled'.outcome = "loaded"
    /\ handled'.id = r.id

\* C32: an answer with candles is applied whatever request it answers: an
\* initial load older than the current window still replaces the buffer
\* and the window, a chunk fetched for another window is still prepended
\* and still sets the offset.
C32_StaleAnswersApplied ==
    [][\A r \in inflight :
         Loaded(r) =>
           IF r.kind = "initial"
           THEN /\ chartRequestId' = r.id
                /\ chartCurrentOffset' = handled'.offset
                /\ allChartData' = MapChart(Candles(r.symbol, handled'.offset))
           ELSE /\ chartCurrentOffset' = handled'.offset
                /\ allChartData' =
                      MapChart(Candles(WindowSymbol(r.request_id),
                                       handled'.offset)) \o allChartData
                /\ UNCHANGED chartRequestId]_vars

\* A chunk fetched for the window of an earlier context was prepended after
\* the load of the later context had completed.
C32_Witness ==
    /\ handled.type = "response"
    /\ handled.kind = "chunk"
    /\ handled.outcome = "loaded"
    /\ handled.id < chartRequestId
    /\ Len(allChartData) = 4
    /\ allChartData[1].time = handled.offset + 1

\* The load of an earlier context was applied after the load of the later
\* one had completed.
C32_WitnessInitial ==
    /\ handled.type = "response"
    /\ handled.kind = "initial"
    /\ handled.outcome = "loaded"
    /\ chartRequestId = handled.id
    /\ \E w \in OpenedWindows : w > handled.id

\* The step handles an answer with candles to a chunk request.
ChunkApplied ==
    /\ handled'.type = "response"
    /\ handled'.kind = "chunk"
    /\ handled'.outcome = "loaded"

\* The step is an answer to an initial load.
InitialAnswered == handled'.type = "response" /\ handled'.kind = "initial"

\* C33 as stated: every chunk answer with candles lowers chartCurrentOffset
\* by exactly the chunk size, and no step but the answer to an initial load
\* raises it.
C33_OffsetLoweredByChunkSize ==
    [][/\ ChunkApplied
          => chartCurrentOffset' = chartCurrentOffset - DATA_CHUNK_SIZE
       /\ ~InitialAnswered => chartCurrentOffset' <= chartCurrentOffset]_vars

\* C33 amended: every chunk request asks for the current offset less the
\* chunk size (never below 0) and leaves the offset alone; a chunk answer
\* with candles sets the offset to the one the server reports, which is the
\* requested one exactly when the server reports the offset it was asked
\* for; no other step but the answer to an initial load changes the offset.
C33_OffsetSteppedByRequest ==
    [][/\ \A c \in ChunkFetches' \ ChunkFetches :
             /\ c.offset = chartCurrentOffset - DATA_CHUNK_SIZE
             /\ c.offset >= 0
             /\ UNCHANGED chartCurrentOffset
       /\ ChunkApplied => chartCurrentOffset' = handled'.offset
       /\ ~ChunkApplied /\ ~InitialAnswered => UNCHANGED chartCurrentOffset]_vars

\* A page back within one window: the window opened at offset 10000, the
\* chunk asked for at 5000 came with offset 5000.
C33_Witness ==
    /\ handled.type = "response"
    /\ handled.kind = "chunk"
    /\ handled.outcome = "loaded"
    /\ handled.requested = DATA_CHUNK_SIZE
    /\ handled.offset = DATA_CHUNK_SIZE
    /\ chartCurrentOffset = DATA_CHUNK_SIZE
    /\ allChartData = MapChart(Candles(symbolSelect, DATA_CHUNK_SIZE))
                          \o MapChart(Candles(symbolSelect, 2 * DATA_CHUNK_SIZE))

(***************************************************************************)
(* Properties of the listener over a Redis whose calls may raise.          *)
(***************************************************************************)
\* The handler that ran in the step, "none" if no record was delivered.
Ran ==
    IF Len(feed') > Len(feed) THEN feed'[Len(feed')].handler ELSE "none"

\* The handler of the step reached the end of its try block: nothing was
\* caught and logged.
ReturnedNormally == Ran # "none" /\ error_log' = error_log

\* C34: every history or live handler that appends to a symbol's list and
\* returns without having caught an exception leaves that key with an
\* expiry of 86400 seconds; no other handler touches the expiry.
C34_SlidingExpiry ==
    [][\A s \in Symbols :
          /\ ReturnedNormally /\ cache'[s] # cache[s]
               => /\ Ran \in {"history", "live"}
                  /\ Len(cache'[s]) = Len(cache[s]) + 1
                  /\ ttl'[s] = CACHE_TTL
          /\ ttl'[s] # ttl[s] => cache'[s] # cache[s]]_vars

\* A list that holds a history bar and a live bar, each appended by a
\* handler that returned normally, and has its expiry.
C34_Witness ==
    /\ Len(feed) = 2
    /\ feed[1].handler = "history"
    /\ feed[2].handler = "live"
    /\ error_log = 0
    /\ \E s \in Symbols : Len(cache[s]) = 2 /\ ttl[s] = CACHE_TTL

\* C39: after process_live_bar has returned the bar has been published if
\* and only if it has been appended to the symbol's list, whichever Redis
\* call raised.
C39_PublishedIffCached ==
    [][Ran = "live"
        => \A s \in Symbols :
              published'[s] # published[s] <=> cache'[s] # cache[s]]_vars

\* --- Properties of the chart series and of the fetching flag ----------------

\* C35: the data held by mainSeries and volumeSeries is exactly
\* state.allChartData and state.allVolumeData, in every state reached by
\* initial loads, backfill bursts, live bars and prepended pages.
C35_SeriesEqualBuffer ==
    /\ mainSeries = allChartData
    /\ volumeSeries = allVolumeData

\* C37: currentlyFetching is true whenever a historical request (initial
\* load or chunk fetch) is in flight.
C37_FetchingWhileInFlight ==
    inflight # {} => currentlyFetching

\* C38: every historical answer that is applied belongs to the current
\* window: chartCurrentOffset is set from an answer to the request whose id
\* is chartRequestId (initial load) or that was sent with the current
\* chartRequestId (chunk), and a chunk is prepended only to the window it
\* was fetched for.
C38_AnswersOfCurrentWindow ==
    [][\A r \in inflight :
          Loaded(r) => /\ chartCurrentOffset' = handled'.offset
                       /\ chartRequestId' =
                             IF r.kind = "initial" THEN r.id
                                                   ELSE r.request_id]_vars

\* C36: when the client sets allDataLoaded, chartCurrentOffset is 0 or the
\* server has just answered a chunk request with no candles: the window is
\* not marked exhausted while rows below chartCurrentOffset were never
\* requested.
C36_ExhaustionImpliesComplete ==
    [][(allDataLoaded' /\ ~allDataLoaded)
          => \/ chartCurrentOffset' = 0
             \/ /\ handled'.type = "response"
                /\ handled'.kind = "chunk"
                /\ handled'.outcome = "empty"]_vars

\* C40: unchecking the live toggle leaves no live connection open, and no
\* connection is opened while the toggle is unchecked, also when a
\* loadInitialChart that was started in live mode is answered afterwards.
C40_NoConnectionWhileLiveOff ==
    [][/\ (handled'.type = "toggle" /\ ~liveToggle') => sockets' = {}
       /\ (sockets' \ sockets # {}) => liveToggle']_vars

====
